---------------------------- MODULE Spec2Model ----------------------------
(***************************************************************************)
(* PollReader (src/PollReader.py): a store of six parallel columns built   *)
(* from the raw lines of a comma-delimited poll file, and three aggregate  *)
(* queries over the stored columns.                                        *)
(*                                                                         *)
(* Text is modelled as sequences of one-character strings, so that         *)
(* strip(), split(), int() and float() are computed character by           *)
(* character.  A Python float is modelled as a binary floating-point       *)
(* number with MantBits significant bits, held as an integer count of      *)
(* units of 2^-UnitBits; every arithmetic operation rounds its exact       *)
(* result to the nearest representable value, ties to even, as IEEE-754    *)
(* arithmetic does.                                                        *)
(***************************************************************************)
EXTENDS Integers, Sequences, FiniteSets, TLC

VARIABLES raw_data, data_dict, pc, result

vars == <<raw_data, data_dict, pc, result>>

(***************************************************************************)
(* Bounds of the model.                                                    *)
(***************************************************************************)
\* significant bits of a modelled float (53 in a Python float)
MantBits == 8
\* a modelled float is a multiple of 2^-UnitBits
UnitBits == 16
\* data rows after the header in an enumerated short file
MaxRows == 2

\* the window of polling_history_change: min(30, ...)
Window == 30

(***************************************************************************)
(* Floating-point arithmetic.                                              *)
(***************************************************************************)
RECURSIVE Pow2(_)
Pow2(n) == IF n = 0 THEN 1 ELSE 2 * Pow2(n - 1)

Unit == Pow2(UnitBits)

RECURSIVE BitLen(_)
BitLen(n) == IF n = 0 THEN 0 ELSE 1 + BitLen(n \div 2)

\* nearest integer to a/b (a >= 0, b > 0), ties to the even neighbour
RoundHalfEven(a, b) ==
    LET q == a \div b
        r == a % b
    IN  IF r < b - r THEN q
        ELSE IF r > b - r THEN q + 1
        ELSE IF q % 2 = 0 THEN q ELSE q + 1

\* the float nearest to a/b units (a >= 0, b > 0)
RoundPos(a, b) ==
    LET k == BitLen(a \div b) - MantBits
    IN  IF k <= 0 THEN RoundHalfEven(a, b)
        ELSE RoundHalfEven(a, b * Pow2(k)) * Pow2(k)

\* the float nearest to a/b units (b > 0)
Round(a, b) == IF a < 0 THEN 0 - RoundPos(0 - a, b) ELSE RoundPos(a, b)

\* x / n for a float x and a positive whole number n
FDiv(x, n) == Round(x, n)

\* x + y and x - y for floats x, y
FAdd(x, y) == Round(x + y, 1)
FSub(x, y) == Round(x - y, 1)

\* x * n for a float x and a whole number n
FMul(x, n) == Round(x * n, 1)

\* Loops over long sequences are written over a range lo..hi that is split
\* in two, the first half before the second: the iterations run in the
\* order of the loop, and the evaluation nests only log(hi - lo) deep.

\* sum(seq): ((0 + seq[1]) + seq[2]) + ..., left to right; acc is the sum
\* before position lo.  (CPython 3.12 and later also carry a correction for
\* the rounding of the running sum; nothing stated below depends on which.)
RECURSIVE FSumRange(_, _, _, _)
FSumRange(acc, seq, lo, hi) ==
    IF lo > hi THEN acc
    ELSE IF lo = hi THEN FAdd(acc, seq[lo])
    ELSE LET mid == (lo + hi) \div 2
         IN  FSumRange(FSumRange(acc, seq, lo, mid), seq, mid + 1, hi)

FSum(seq) == FSumRange(0, seq, 1, Len(seq))

\* max(seq) for a non-empty seq: an element replaces the best so far only
\* when it is greater
RECURSIVE MaxRange(_, _, _, _)
MaxRange(best, seq, lo, hi) ==
    IF lo > hi THEN best
    ELSE IF lo = hi THEN (IF seq[lo] > best THEN seq[lo] ELSE best)
    ELSE LET mid == (lo + hi) \div 2
         IN  MaxRange(MaxRange(best, seq, lo, mid), seq, mid + 1, hi)

PyMax(seq) == MaxRange(seq[1], seq, 2, Len(seq))

\* f"{x:.1f}": the decimal with one fractional digit nearest to x, in tenths
Format1(x) ==
    IF x < 0 THEN 0 - RoundHalfEven((0 - x) * 10, Unit)
    ELSE RoundHalfEven(x * 10, Unit)

(***************************************************************************)
(* Text: str.strip, str.split, int, float.                                 *)
(***************************************************************************)
Whitespace == {" ", "\n"}

DigitChars == <<"0", "1", "2", "3", "4", "5", "6", "7", "8", "9">>

IsDigit(c) == \E i \in 1..10 : DigitChars[i] = c

DigitVal(c) == (CHOOSE i \in 1..10 : DigitChars[i] = c) - 1

RECURSIVE LStrip(_)
LStrip(s) ==
    IF s # <<>> /\ Head(s) \in Whitespace THEN LStrip(Tail(s)) ELSE s

RECURSIVE RStrip(_)
RStrip(s) ==
    IF s # <<>> /\ s[Len(s)] \in Whitespace
    THEN RStrip(SubSeq(s, 1, Len(s) - 1)) ELSE s

\* s.strip()
Strip(s) == RStrip(LStrip(s))

\* s.split(','): cur is the field being read, out the fields already closed
RECURSIVE SplitFrom(_, _, _, _)
SplitFrom(s, i, cur, out) ==
    IF i > Len(s) THEN Append(out, cur)
    ELSE IF s[i] = "," THEN SplitFrom(s, i + 1, <<>>, Append(out, cur))
    ELSE SplitFrom(s, i + 1, Append(cur, s[i]), out)

SplitComma(s) == SplitFrom(s, 1, <<>>, <<>>)

\* s.split(): maximal runs of non-whitespace characters
RECURSIVE WordsFrom(_, _, _, _)
WordsFrom(s, i, cur, out) ==
    IF i > Len(s) THEN (IF cur = <<>> THEN out ELSE Append(out, cur))
    ELSE IF s[i] \in Whitespace
         THEN WordsFrom(s, i + 1, <<>>, IF cur = <<>> THEN out ELSE Append(out, cur))
    ELSE WordsFrom(s, i + 1, Append(cur, s[i]), out)

SplitWords(s) == WordsFrom(s, 1, <<>>, <<>>)

\* [x.strip() for x in row.strip().split(',')]
Separated(row) ==
    LET parts == SplitComma(Strip(row))
    IN  [i \in 1..Len(parts) |-> Strip(parts[i])]

\* the text without its sign
Unsigned(s) == IF s # <<>> /\ Head(s) \in {"-", "+"} THEN Tail(s) ELSE s

Negative(s) == s # <<>> /\ Head(s) = "-"

AllDigits(s) == \A i \in 1..Len(s) : IsDigit(s[i])

RECURSIVE DigitsValue(_, _, _)
DigitsValue(acc, s, i) ==
    IF i > Len(s) THEN acc
    ELSE DigitsValue(10 * acc + DigitVal(s[i]), s, i + 1)

\* int(s) raises ValueError unless s is an optional sign and one or more digits
IntOk(s) ==
    LET u == Unsigned(Strip(s)) IN u # <<>> /\ AllDigits(u)

IntOf(s) ==
    LET t == Strip(s)
        v == DigitsValue(0, Unsigned(t), 1)
    IN  IF Negative(t) THEN 0 - v ELSE v

\* the digits of a decimal text with the point removed, and how many follow it
PointAt(u) == IF \E i \in 1..Len(u) : u[i] = "."
              THEN CHOOSE i \in 1..Len(u) : u[i] = "."
              ELSE Len(u) + 1

WithoutPoint(u) ==
    LET p == PointAt(u)
    IN  SubSeq(u, 1, p - 1) \o SubSeq(u, p + 1, Len(u))

RECURSIVE Pow10(_)
Pow10(n) == IF n = 0 THEN 1 ELSE 10 * Pow10(n - 1)

\* float(s) raises ValueError unless s is an optional sign and digits with at
\* most one decimal point (exponents, inf and nan are not in the alphabet)
FloatOk(s) ==
    LET d == WithoutPoint(Unsigned(Strip(s)))
    IN  d # <<>> /\ AllDigits(d)

\* the exact decimal value of the text, as numerator and denominator
DecNum(s) ==
    LET t == Strip(s)
        v == DigitsValue(0, WithoutPoint(Unsigned(t)), 1)
    IN  IF Negative(t) THEN 0 - v ELSE v

DecDen(s) ==
    LET u == Unsigned(Strip(s))
    IN  IF PointAt(u) > Len(u) THEN 1 ELSE Pow10(Len(u) - PointAt(u))

\* float(s): the float nearest to the decimal value of the text
FloatOf(s) == Round(DecNum(s) * Unit, DecDen(s))


(***************************************************************************)
(* Raw input: the lines readlines() returns, each a sequence of characters.*)
(***************************************************************************)
RECURSIVE JoinComma(_)
JoinComma(fields) ==
    IF Len(fields) = 0 THEN <<>>
    ELSE IF Len(fields) = 1 THEN fields[1]
    ELSE fields[1] \o <<",">> \o JoinComma(Tail(fields))

Line(fields) == JoinComma(fields) \o <<"\n">>

Oct == <<"O", "c", "t">>
LV == <<"L", "V">>
RV == <<"R", "V">>
Unknown == <<"U", "n", "k", "n", "o", "w", "n">>

S9LV == <<"9", " ", "L", "V">>
S8RV == <<"8", " ", "R", "V">>

\* the header of the poll file
HeaderLine == Line(<< <<"m">>, <<"d">>, <<"s">>, <<"H">>, <<"T">> >>)

\* rows whose fields all parse
GoodRows == {
    Line(<<Oct, <<"1">>, S9LV, <<"5", "5">>, <<"0", ".", "5", "5">> >>),
    Line(<<Oct, <<"2">>, S8RV, <<"4", "9", ".", "3", "4">>,
           <<"0", ".", "4", "9", "3", "4">> >>),
    Line(<< <<" ">> \o Oct, <<" ", "3", " ">>, <<"7", " ", " ", "X", "X", " ">>,
            <<"5", "7", ".", "0">>, <<" ", "5", "2">> >>),
    Line(<<Oct, <<"4">>, <<"6">>, <<"1">>, <<"0", ".", "0", "1">> >>),
    Line(<<Oct, <<"5">>, <<"5", " ", "L", "V", " ", "x">>,
           <<"1", "2", ".", "5">>, <<"0", ".", "1", "2", "5">> >>),
    Line(<<Oct, <<"6">>, S9LV, <<"1", "5", "0">>, <<"-", "5">> >>),
    Line(<<Oct, <<"7">>, <<"9", " ", "l", "v">>, <<"0">>, <<"0", ".", "0">>,
           <<"x">> >>) }

\* rows with five fields of which one does not parse
BadRows == {
    Line(<<Oct, <<"x">>, S9LV, <<"5", "5">>, <<"4", "5">> >>),
    Line(<<Oct, <<"8">>, <<"a", " ", "L", "V">>, <<"5", "5">>, <<"4", "5">> >>),
    Line(<<Oct, <<"8">>, <<>>, <<"5", "5">>, <<"4", "5">> >>),
    Line(<<Oct, <<"9">>, S9LV, <<"a", "b", "c">>, <<"4", "5">> >>),
    Line(<<Oct, <<"9">>, S9LV, <<"5", "5">>, <<"4", ".", "5", ".">> >>) }

\* rows with fewer than five fields
ShortRows == {
    Line(<<Oct, <<"1">>, S9LV, <<"9", "9">> >>),
    Line(<<>>) }

RowPool == GoodRows \cup BadRows \cup ShortRows

\* the first line: a header, or any other line
FirstLines == {HeaderLine} \cup
    {r \in GoodRows : Separated(r)[2] = <<"1">>}

RECURSIVE SeqsUpTo(_, _)
SeqsUpTo(S, n) ==
    IF n = 0 THEN {<<>>}
    ELSE LET shorter == SeqsUpTo(S, n - 1)
         IN  shorter \cup {Append(q, x) : q \in shorter, x \in S}

ShortFiles == {<<>>} \cup {<<h>> \o rows : h \in FirstLines, rows \in SeqsUpTo(RowPool, MaxRows)}

\* long files: runs of three rows, long enough to fill both windows of
\* polling_history_change
Repeat(x, n) == [i \in 1..n |-> x]

RowA == Line(<<Oct, <<"1">>, S9LV, <<"5", "5">>, <<"4", "5">> >>)
RowB == Line(<<Oct, <<"2">>, S8RV, <<"5", "0">>, <<"5", "2">> >>)
RowC == Line(<<Oct, <<"3">>, S9LV, <<"0", ".", "4", "8">>, <<"4", "6">> >>)


LongFiles == {<<HeaderLine>> \o Repeat(RowA, a) \o Repeat(RowB, b) \o Repeat(RowC, c) :
                 a \in {0, Window - 1, Window}, b \in {0, 1, 2},
                 c \in {0, Window, Window + 1}}

Files == ShortFiles \cup LongFiles

(***************************************************************************)
(* PollReader.                                                             *)
(***************************************************************************)
Keys == {"month", "date", "sample", "sample type", "Harris result", "Trump result"}

\* __init__: the data dict with six empty columns
EmptyDict == [k \in Keys |-> <<>>]

NoValue == <<>>

Init ==
    /\ raw_data \in Files
    /\ data_dict = EmptyDict
    /\ pc = "constructed"
    /\ result = [op |-> "__init__", raised |-> "none", value |-> NoValue]

\* _to_fraction dividing by 10.0 instead of 100.0
to_fraction_tenth(val_str) ==
    LET v == FloatOf(val_str)
    IN  IF v > Unit THEN FDiv(v, 10) ELSE v

\* _to_fraction(val_str), once float(val_str) has parsed
to_fraction(val_str) ==
    LET v == FloatOf(val_str)
    IN  IF v > Unit THEN FDiv(v, 100) ELSE v

Raise(dd, exc) == [dd |-> dd, raised |-> exc]

\* the body of the loop of build_data_dict for one row of five or more fields
AppendRow(dd, separated) ==
    LET d1 == [dd EXCEPT !["month"] = Append(@, separated[1])]
    IN  IF ~IntOk(separated[2]) THEN Raise(d1, "ValueError")
        ELSE
        LET d2 == [d1 EXCEPT !["date"] = Append(@, IntOf(separated[2]))]
            sample_parts == SplitWords(separated[3])
        IN  IF sample_parts = <<>> THEN Raise(d2, "IndexError")
            ELSE IF ~IntOk(sample_parts[1]) THEN Raise(d2, "ValueError")
            ELSE
            LET sample_size == IntOf(sample_parts[1])
                sample_type ==
                    IF Len(sample_parts) = 2
                    THEN (IF sample_parts[2] \in {LV, RV}
                          THEN sample_parts[2] ELSE Unknown)
                    ELSE Unknown
                d3 == [d2 EXCEPT !["sample"] = Append(@, sample_size)]
                d4 == [d3 EXCEPT !["sample type"] =
                          Append(@, IF sample_type = LV THEN "likely voters"
                                    ELSE "registered voters")]
            IN  IF ~FloatOk(separated[4]) THEN Raise(d4, "ValueError")
                ELSE
                LET d5 == [d4 EXCEPT !["Harris result"] =
                              Append(@, to_fraction(separated[4]))]
                IN  IF ~FloatOk(separated[5]) THEN Raise(d5, "ValueError")
                    ELSE Raise([d5 EXCEPT !["Trump result"] =
                                   Append(@, to_fraction(separated[5]))], "none")

\* the iteration without the test that skips the first line
BuildRowNoSkip(dd, rows, idx) ==
    LET separated == Separated(rows[idx + 1])
    IN  IF Len(separated) < 5 THEN Raise(dd, "none")
        ELSE AppendRow(dd, separated)

\* one iteration of the loop of build_data_dict: idx counts from 0
BuildRow(dd, rows, idx) ==
    IF idx = 0 THEN Raise(dd, "none")
    ELSE LET separated == Separated(rows[idx + 1])
         IN  IF Len(separated) < 5 THEN Raise(dd, "none")
             ELSE AppendRow(dd, separated)

\* for idx, row in enumerate(raw_data): the iterations lo..hi in order,
\* stopping at the first that raises
RECURSIVE BuildRange(_, _, _, _)
BuildRange(acc, rows, lo, hi) ==
    IF lo > hi \/ acc.raised # "none" THEN acc
    ELSE IF lo = hi THEN BuildRow(acc.dd, rows, lo)
    ELSE LET mid == (lo + hi) \div 2
         IN  BuildRange(BuildRange(acc, rows, lo, mid), rows, mid + 1, hi)

BuildAll(dd, rows) == BuildRange(Raise(dd, "none"), rows, 0, Len(rows) - 1)

build_data_dict ==
    /\ pc = "constructed"
    /\ LET r == BuildAll(data_dict, raw_data)
       IN  /\ data_dict' = r.dd
           /\ pc' = IF r.raised = "none" THEN "built" ELSE "failed"
           /\ result' = [op |-> "build_data_dict", raised |-> r.raised,
                         value |-> NoValue]
    /\ UNCHANGED raw_data

\* highest_polling_candidate with >= for the first comparison
HighestPollingTie(dd) ==
    LET harris_results == dd["Harris result"]
        trump_results == dd["Trump result"]
        max_harris == IF harris_results # <<>> THEN PyMax(harris_results) ELSE 0
        max_trump == IF trump_results # <<>> THEN PyMax(trump_results) ELSE 0
    IN  IF max_harris >= max_trump
        THEN [label |-> "Harris", pct |-> Format1(FMul(max_harris, 100))]
        ELSE [label |-> "Trump", pct |-> Format1(FMul(max_trump, 100))]

\* the value highest_polling_candidate returns: the label and the number
\* printed after it, in tenths of a percent
HighestPolling(dd) ==
    LET harris_results == dd["Harris result"]
        trump_results == dd["Trump result"]
        max_harris == IF harris_results # <<>> THEN PyMax(harris_results) ELSE 0
        max_trump == IF trump_results # <<>> THEN PyMax(trump_results) ELSE 0
    IN  IF max_harris > max_trump
        THEN [label |-> "Harris", pct |-> Format1(FMul(max_harris, 100))]
        ELSE IF max_trump > max_harris
        THEN [label |-> "Trump", pct |-> Format1(FMul(max_trump, 100))]
        ELSE [label |-> "EVEN", pct |-> Format1(FMul(max_harris, 100))]

highest_polling_candidate ==
    /\ result' = [op |-> "highest_polling_candidate", raised |-> "none",
                  value |-> HighestPolling(data_dict)]
    /\ UNCHANGED <<raw_data, data_dict, pc>>

\* stype.upper() in place of stype.lower()
Upper(stype) ==
    CASE stype = "likely voters" -> "LIKELY VOTERS"
      [] stype = "registered voters" -> "REGISTERED VOTERS"

\* stype.lower() of a stored sample type
Lower(stype) ==
    CASE stype = "likely voters" -> "likely voters"
      [] stype = "registered voters" -> "registered voters"

\* sum(xs) / len(xs) if xs else 0.0
Mean(xs) == IF xs # <<>> THEN FDiv(FSum(xs), Len(xs)) ELSE 0

\* one iteration of the loop of likely_voter_polling_average, at position i
\* (from 1), on the two lists collected so far
LikelyStep(dd, acc, i) ==
    IF Lower(dd["sample type"][i]) = "likely voters"
    THEN IF i > Len(dd["Harris result"]) \/ i > Len(dd["Trump result"])
         THEN [acc EXCEPT !.raised = "IndexError"]
         ELSE [acc EXCEPT
                 !.harris_likely = Append(@, dd["Harris result"][i]),
                 !.trump_likely = Append(@, dd["Trump result"][i])]
    ELSE acc

\* the iterations lo..hi of the loop, stopping at the first that raises
RECURSIVE LikelyRange(_, _, _, _)
LikelyRange(dd, acc, lo, hi) ==
    IF lo > hi \/ acc.raised # "none" THEN acc
    ELSE IF lo = hi THEN LikelyStep(dd, acc, lo)
    ELSE LET mid == (lo + hi) \div 2
         IN  LikelyRange(dd, LikelyRange(dd, acc, lo, mid), mid + 1, hi)

LikelyVoter(dd) ==
    LET acc == LikelyRange(dd, [raised |-> "none", harris_likely |-> <<>>,
                                trump_likely |-> <<>>],
                           1, Len(dd["sample type"]))
    IN  IF acc.raised # "none" THEN [raised |-> acc.raised, value |-> NoValue]
        ELSE [raised |-> "none",
              value |-> <<Mean(acc.harris_likely), Mean(acc.trump_likely)>>]

likely_voter_polling_average ==
    /\ LET r == LikelyVoter(data_dict)
       IN  result' = [op |-> "likely_voter_polling_average",
                      raised |-> r.raised, value |-> r.value]
    /\ UNCHANGED <<raw_data, data_dict, pc>>

Min3(a, b, c) ==
    IF a <= b /\ a <= c THEN a ELSE IF b <= c THEN b ELSE c

\* the late window without the positions the early window already holds
LastNDedup(seq, n) ==
    SubSeq(seq, IF n + 1 > Len(seq) - n + 1 THEN n + 1 ELSE Len(seq) - n + 1,
           Len(seq))

\* seq[:n] and seq[-n:] for 0 < n <= len(seq)
FirstN(seq, n) == SubSeq(seq, 1, n)

LastN(seq, n) == SubSeq(seq, Len(seq) - n + 1, Len(seq))

HistoryChange(dd) ==
    LET harris == dd["Harris result"]
        trump == dd["Trump result"]
        n == Min3(Window, Len(harris), Len(trump))
    IN  IF n = 0 THEN <<0, 0>>
        ELSE LET harris_early_avg == FDiv(FSum(FirstN(harris, n)), n)
                 trump_early_avg == FDiv(FSum(FirstN(trump, n)), n)
                 harris_late_avg == FDiv(FSum(LastN(harris, n)), n)
                 trump_late_avg == FDiv(FSum(LastN(trump, n)), n)
             IN  <<FSub(harris_early_avg, harris_late_avg),
                   FSub(trump_early_avg, trump_late_avg)>>

polling_history_change ==
    /\ result' = [op |-> "polling_history_change", raised |-> "none",
                  value |-> HistoryChange(data_dict)]
    /\ UNCHANGED <<raw_data, data_dict, pc>>

Next ==
    \/ build_data_dict
    \/ highest_polling_candidate
    \/ likely_voter_polling_average
    \/ polling_history_change

Spec == Init /\ [][Next]_vars

(***************************************************************************)
(* What the raw input says, read off the characters of each line.          *)
(***************************************************************************)
Range(seq) == {seq[i] : i \in 1..Len(seq)}

SetMax(S) == CHOOSE x \in S : \A y \in S : y <= x

SetMin(S) == CHOOSE x \in S : \A y \in S : x <= y

\* the k-th smallest element of a set of numbers
Nth(S, k) == CHOOSE x \in S : Cardinality({y \in S : y < x}) = k - 1

\* the elements of seq at the positions S, in increasing position
SubAt(seq, S) == [k \in 1..Cardinality(S) |-> seq[Nth(S, k)]]

CommaPositions(row) == {i \in 1..Len(row) : row[i] = ","}

FieldCount(row) == Cardinality(CommaPositions(row)) + 1

\* where field k starts and ends: just after comma k-1, just before comma k
FieldStart(row, k) == IF k = 1 THEN 1 ELSE Nth(CommaPositions(row), k - 1) + 1

FieldEnd(row, k) ==
    IF k = FieldCount(row) THEN Len(row) ELSE Nth(CommaPositions(row), k) - 1

RawField(row, k) == Strip(SubSeq(row, FieldStart(row, k), FieldEnd(row, k)))

\* the lines that are not the first and have at least five fields
QualLines == {i \in 2..Len(raw_data) : FieldCount(raw_data[i]) >= 5}

\* whether the date, sample size and result fields of a line are numbers
RowParses(row) ==
    LET words == SplitWords(RawField(row, 3))
    IN  /\ IntOk(RawField(row, 2))
        /\ words # <<>>
        /\ IntOk(words[1])
        /\ FloatOk(RawField(row, 4))
        /\ FloatOk(RawField(row, 5))

FailingLines == {i \in QualLines : ~RowParses(raw_data[i])}

\* the line the j-th stored value of a column comes from
LineOf(j) == Nth(QualLines, j)

Harris == data_dict["Harris result"]
Trump == data_dict["Trump result"]
SampleType == data_dict["sample type"]

\* the number of complete records: positions present in all six columns
NRecords == SetMin({Len(data_dict[k]) : k \in Keys})

Abs(x) == IF x < 0 THEN 0 - x ELSE x

(***************************************************************************)
(* C1                                                                      *)
(***************************************************************************)
ColumnMax(col) == IF col = <<>> THEN 0 ELSE SetMax(Range(col))

\* C1: highest_polling_candidate() compares the maximum of the Harris column
\* with the maximum of the Trump column, an empty column counting as 0.0;
\* the label is Harris when the Harris maximum is strictly greater, Trump
\* when the Trump maximum is strictly greater and EVEN when they are equal,
\* and the number printed is the maximum over both columns times 100, to the
\* nearest tenth of a percent.
C1_HighestIsMaximum ==
    result.op = "highest_polling_candidate" =>
        LET mh == ColumnMax(Harris)
            mt == ColumnMax(Trump)
            both == SetMax({mh, mt})
        IN  /\ result.raised = "none"
            /\ result.value.label =
                   (IF mh > mt THEN "Harris" ELSE IF mt > mh THEN "Trump" ELSE "EVEN")
            /\ 2 * Abs(result.value.pct * Unit - 10 * FMul(both, 100)) <= Unit

C1_Witness ==
    /\ result.op = "highest_polling_candidate"
    /\ Len(Harris) >= 2
    /\ Len(Trump) >= 2
    /\ result.value.label = "Trump"
    /\ result.value.pct > 0

(***************************************************************************)
(* C2                                                                      *)
(***************************************************************************)
LikelyPositions == {i \in 1..Len(SampleType) : SampleType[i] = "likely voters"}

EarlyWindow(col, n) == [i \in 1..n |-> col[i]]
LateWindow(col, n) == [i \in 1..n |-> col[Len(col) - n + i]]

\* C3: with N records and n = min(30, N), polling_history_change() returns,
\* per candidate, the mean of the first n results minus the mean of the last
\* n results in stored order, overlapping records counted in both means, and
\* (0.0, 0.0) when N = 0.
C3_HistoryChange ==
    result.op = "polling_history_change" =>
        LET n == IF NRecords < Window THEN NRecords ELSE Window
        IN  /\ result.raised = "none"
            /\ result.value =
                   IF NRecords = 0 THEN <<0, 0>>
                   ELSE <<FSub(Mean(EarlyWindow(Harris, n)), Mean(LateWindow(Harris, n))),
                          FSub(Mean(EarlyWindow(Trump, n)), Mean(LateWindow(Trump, n)))>>

C3_Witness ==
    /\ result.op = "polling_history_change"
    /\ NRecords > Window
    /\ NRecords < 2 * Window
    /\ result.value[1] # 0
    /\ result.value[2] # 0

(***************************************************************************)
(* C4                                                                      *)
(***************************************************************************)
\* C4: after build_data_dict has run over any raw input the six columns
\* have equal length.
C4_EqualLengths ==
    pc # "constructed" =>
        \A k1 \in Keys, k2 \in Keys : Len(data_dict[k1]) = Len(data_dict[k2])

(***************************************************************************)
(* C5                                                                      *)
(***************************************************************************)
\* the label the sample descriptor of a row determines
ExpectedSampleType(descriptor) ==
    LET words == SplitWords(descriptor)
    IN  IF Len(words) = 2 /\ words[2] = LV THEN "likely voters"
        ELSE IF Len(words) = 2 /\ words[2] = RV THEN "registered voters"
        ELSE "unknown"

\* C5: every stored sample type is 'likely voters' when the descriptor has
\* exactly two tokens and the second is LV, 'registered voters' when it has
\* exactly two tokens and the second is RV, and 'unknown' otherwise.
C5_SampleTypeLabels ==
    \A j \in 1..Len(SampleType) :
        SampleType[j] = ExpectedSampleType(RawField(raw_data[LineOf(j)], 3))

(***************************************************************************)
(* C6                                                                      *)
(***************************************************************************)
\* C6: every stored Harris result and Trump result lies in [0, 1].
C6_FractionsInUnitInterval ==
    /\ \A i \in 1..Len(Harris) : 0 <= Harris[i] /\ Harris[i] <= Unit
    /\ \A i \in 1..Len(Trump) : 0 <= Trump[i] /\ Trump[i] <= Unit

(***************************************************************************)
(* C7                                                                      *)
(***************************************************************************)
\* the first token of the sample descriptor
SampleSizeText(row) == SplitWords(RawField(row, 3))[1]

\* C7: when the numeric fields of every line with five or more fields after
\* the first parse, one build_data_dict call on the empty store returns
\* without raising and leaves exactly one record per such line, in line
\* order; the first line and the lines with fewer than five fields
\* contribute nothing.
C7_OneRecordPerQualifyingLine ==
    (pc # "constructed" /\ FailingLines = {}) =>
        /\ pc = "built"
        /\ \A k \in Keys : Len(data_dict[k]) = Cardinality(QualLines)
        /\ \A j \in 1..Cardinality(QualLines) :
               LET row == raw_data[LineOf(j)]
               IN  /\ data_dict["month"][j] = RawField(row, 1)
                   /\ data_dict["date"][j] = IntOf(RawField(row, 2))
                   /\ data_dict["sample"][j] = IntOf(SampleSizeText(row))
                   /\ Harris[j] = to_fraction(RawField(row, 4))
                   /\ Trump[j] = to_fraction(RawField(row, 5))

C7_Witness ==
    /\ pc = "built"
    /\ Len(raw_data) = 3
    /\ FieldCount(raw_data[1]) >= 5
    /\ RowParses(raw_data[1])
    /\ \E i \in 2..3 : FieldCount(raw_data[i]) < 5 /\ FieldCount(raw_data[i]) > 1
    /\ Len(data_dict["month"]) = 1

(***************************************************************************)
(* C8                                                                      *)
(***************************************************************************)
\* each stored result with the text of the field it was read from
StoredResults ==
    {[text |-> RawField(raw_data[LineOf(j)], 4), stored |-> Harris[j]] :
        j \in 1..Len(Harris)}
    \cup
    {[text |-> RawField(raw_data[LineOf(j)], 5), stored |-> Trump[j]] :
        j \in 1..Len(Trump)}

\* text t, read as a percentage p with 0 <= p <= 100, and text u, read as a
\* fraction, denote the same quantity: p = 100 * u
SamePercentage(t, u) ==
    /\ DecNum(t) >= 0
    /\ DecNum(t) <= 100 * DecDen(t)
    /\ IF DecDen(u) >= DecDen(t)
       THEN DecNum(t) * (DecDen(u) \div DecDen(t)) = 100 * DecNum(u)
       ELSE DecNum(t) = 100 * DecNum(u) * (DecDen(t) \div DecDen(u))

\* the decimal value of the text is a float: float() does not round it
ExactFloat(t) == FloatOf(t) * DecDen(t) = DecNum(t) * Unit

\* the float nearest to the decimal value of the text
NearestFloat(t) == Round(DecNum(t) * Unit, DecDen(t))

\* C8 as stated: for every percentage p with 0 <= p <= 100, a result field
\* written as p and one written as p/100 are stored as the identical
\* fraction p/100.
C8_SameFractionAnyP ==
    \A a \in StoredResults, b \in StoredResults :
        SamePercentage(a.text, b.text) =>
            a.stored = b.stored /\ a.stored = NearestFloat(b.text)

\* C8 amended: for every percentage p that is 0 or lies in (1, 100] and is
\* exactly representable as a float (every whole number is), a result field
\* written as p and one written as p/100 are stored as the identical
\* fraction, the float nearest to p/100.
C8_SameFractionExactP ==
    \A a \in StoredResults, b \in StoredResults :
        (/\ SamePercentage(a.text, b.text)
         /\ ExactFloat(a.text)
         /\ (DecNum(a.text) = 0 \/ DecNum(a.text) > DecDen(a.text))) =>
            a.stored = b.stored /\ a.stored = NearestFloat(b.text)

C8_Witness ==
    /\ pc = "built"
    /\ \E a \in StoredResults, b \in StoredResults :
           /\ SamePercentage(a.text, b.text)
           /\ ExactFloat(a.text)
           /\ DecNum(a.text) > DecDen(a.text)
           /\ DecDen(a.text) > 1
           /\ a.stored = b.stored
           /\ a.stored < FloatOf(a.text)

(***************************************************************************)
(* C9                                                                      *)
(***************************************************************************)
\* C9: when a line with five or more fields has a date, sample size or
\* result that is not a number, build_data_dict raises and stops: no later
\* line is ingested and no value of the failing line remains in any column,
\* so every column holds exactly the records of the lines before it.
C9_FailingRowLeavesNothing ==
    (pc # "constructed" /\ FailingLines # {}) =>
        /\ pc = "failed"
        /\ \A k \in Keys :
               Len(data_dict[k]) =
                   Cardinality({i \in QualLines : i < SetMin(FailingLines)})

(***************************************************************************)
(* C10                                                                     *)
(***************************************************************************)
Queries == {"highest_polling_candidate", "likely_voter_polling_average",
            "polling_history_change"}

\* C10: once the store exists, before or after build_data_dict and whether
\* it returned or raised, each of the three queries returns a value and
\* never raises.
C10_QueriesNeverRaise ==
    result.op \in Queries => result.raised = "none"

=============================================================================
